---- MODULE Spec2Model ----
(***************************************************************************)
(* Model of the qobuz_dl batch download engine: downloader.Download (the   *)
(* worker pool, the per-item task boundary, album expansion, the retrying  *)
(* transfer with its temp-file -> final-file publish) and                  *)
(* core.QobuzDL.download_from_id (the download ledger).                    *)
(*                                                                         *)
(* The file system is modelled as a map from paths to files; an open file  *)
(* handle follows its file through rename and survives its removal, as on  *)
(* POSIX, so that two writers of one path are visible.                     *)
(***************************************************************************)
EXTENDS Integers, Sequences, FiniteSets, TLC

\* ---------------------------------------------------------------- bounds
\* Total work of one batch: a track item counts 1, an album summary counts
\* one per track (at least 1).
MaxWork == 2
\* Anomalies injected during one run that end the handling of a track
\* (catalog errors, sample descriptors, HTTP error statuses, disk errors).
MaxFaults == 2
\* Transient network errors injected during one run.
MaxTransient == 3

\* ------------------------------------------------------ program constants
MAX_WORKERS == 10
max_retries == 3
PATH_LIMIT == 240

\* ----------------------------------------------------------- path strings
\* A string is a sequence of segments; a segment [c, i, n] stands for the
\* first n characters of the text named c (i is the ordinal printed into
\* it, 0 when it has none).  Distinct (c, i) start with distinct characters.
Seg(c, i, n) == [c |-> c, i |-> i, n |-> n]

Sep == Seg("/", 0, 1)

RECURSIVE StrLen(_)
StrLen(s) == IF s = <<>> THEN 0 ELSE Head(s).n + StrLen(Tail(s))

\* s[:k]
RECURSIVE Take(_, _)
Take(s, k) ==
  IF s = <<>> \/ k <= 0 THEN <<>>
  ELSE IF Head(s).n <= k THEN <<Head(s)>> \o Take(Tail(s), k - Head(s).n)
  ELSE <<Seg(Head(s).c, Head(s).i, k)>>

\* os.path.join(d, name)
PathJoin(d, name) == d \o <<Sep>> \o name

\* the destination root handed to Download (self.path)
Root == <<Seg("Qobuz Downloads", 0, 15)>>

\* f"Disc {multiple}"
DiscDir(multiple) == <<Seg("Disc ", multiple, 6)>>

\* f".{tmp_count:02}.tmp"
TmpName(tmp_count) == <<Seg(".tmp", tmp_count, 7)>>

\* sanitize_filename(track_fmt.format(**filename_attr)): the formatted name
\* of a track is the text named by its title, NameLen characters long;
\* fmt_album prints the track number into it, fmt_single does not.
NameLen == 40
FormattedName(track_fmt, track) ==
  <<Seg(track.title,
        IF track_fmt = "fmt_album" THEN track.track_number ELSE 0,
        NameLen)>>

\* the extension appended to the final path
quality == 6
Extension(is_mp3) == IF is_mp3 THEN <<Seg(".mp3", 0, 4)>> ELSE <<Seg(".flac", 0, 5)>>

IsMp3 == quality = 5

\* root_dir of _download_and_tag after the "Disc N" nesting
RootDir(root_dir, multiple) ==
  IF multiple # 0 THEN PathJoin(root_dir, DiscDir(multiple)) ELSE root_dir

\* filename = os.path.join(root_dir, f".{tmp_count:02}.tmp")
TmpFile(root_dir, tmp_count) == PathJoin(root_dir, TmpName(tmp_count))

\* a final path that is not cut
FinalFile_whole(root_dir, formatted_name) ==
  PathJoin(root_dir, formatted_name) \o Extension(IsMp3)

\* final_file = os.path.join(root_dir, formatted_name)[:240] + extension
FinalFile(root_dir, formatted_name) ==
  Take(PathJoin(root_dir, formatted_name), PATH_LIMIT) \o Extension(IsMp3)

\* os.path.isfile(final_file) / os.path.exists(filename)
IsFile(f, p) == p \in DOMAIN f

\* a transfer that never looks at the final path
AlreadySatisfied_never(f, final_file) == FALSE

\* line 315: the idempotent short-circuit of _download_and_tag
AlreadySatisfied(f, final_file) == IsFile(f, final_file)

\* ------------------------------------------------------------ file system
NoFile == <<>>
Unlinked == <<Seg("(unlinked)", 0, 0)>>

Without(f, p) == [q \in DOMAIN f \ {p} |-> f[q]]
Put(f, p, rec) == [q \in DOMAIN f \cup {p} |-> IF q = p THEN rec ELSE f[q]]

\* open(p, "wb") by task t: creates or truncates the file at p.  The file is
\* dirty when another task still holds it open for writing.
FsOpen(f, h, t, p) ==
  Put(f, p, [data |-> "partial",
             dirty |-> \E u \in DOMAIN h : u # t /\ h[u] = p])
FhOpen(h, t, p) == [h EXCEPT ![t] = p]

\* leaving the "with open(...)" block: data is what the file holds then
FsClose(f, h, t, data) ==
  IF h[t] \in DOMAIN f THEN [f EXCEPT ![h[t]].data = data] ELSE f
FhClose(h, t) == [h EXCEPT ![t] = NoFile]

\* os.remove(p)
FsRemove(f, p) == Without(f, p)
FhRemove(h, p) == [u \in DOMAIN h |-> IF h[u] = p THEN Unlinked ELSE h[u]]

\* os.rename(p, q): q is replaced; handles open on p follow the file
FsRename(f, p, q) == Put(Without(f, p), q, f[p])
FhRename(h, p, q) ==
  [u \in DOMAIN h |-> IF h[u] = p THEN q ELSE IF h[u] = q THEN Unlinked ELSE h[u]]

\* ------------------------------------------------------------------ items
\* A track as the catalog returns it, and an album summary of an artist or
\* label listing.  keys is the set of fields the entry carries; a track
\* without the key media_number has media_number 0 here.
TrackRec(title, track_number, media_number) ==
  [keys |-> {"id", "title", "track_number"}
              \cup (IF media_number # 0 THEN {"media_number"} ELSE {}),
   title |-> title, track_number |-> track_number,
   media_number |-> media_number, folder |-> "", tracks |-> <<>>]

AlbumRec(folder, tracks) ==
  [keys |-> {"id", "title", "tracks_count", "artist"},
   title |-> "", track_number |-> 0,
   media_number |-> 0, folder |-> folder, tracks |-> tracks]

\* line 83: "tracks_count" in i and "track_number" not in i
IsAlbumSummary(i) == "tracks_count" \in i.keys /\ "track_number" \notin i.keys

\* lines 125, 192: len({t.get("media_number", 1) for t in tracks}) > 1
IsMultiple(tracks) ==
  Cardinality({IF tracks[k].media_number = 0 THEN 1 ELSE tracks[k].media_number
               : k \in DOMAIN tracks}) > 1

\* lines 141, 168: i.get("media_number") if is_multiple else None
Multiple(track, is_multiple) == IF is_multiple THEN track.media_number ELSE 0

\* the is_multiple handed to _run_multithreaded_download: computed by
\* download_release (line 192), False from download_batch (line 229)
BatchIsMultiple(m, tracks) == IF m = "release" THEN IsMultiple(tracks) ELSE FALSE

\* the tracks of an album of n tracks, on one disc or on two
AlbumTracks(n, multi) ==
  [k \in 1..n |-> TrackRec("a", k, IF multi /\ k > 1 THEN 2 ELSE 1)]

\* the titles of the tracks of a playlist, by position
TitleAt(k) == IF k = 1 THEN "a" ELSE IF k = 2 THEN "b" ELSE IF k = 3 THEN "c" ELSE "d"

\* the work of a batch entry
Work(i) == IF IsAlbumSummary(i) /\ Len(i.tracks) > 1 THEN Len(i.tracks) ELSE 1
RECURSIVE TotalWork(_)
TotalWork(s) == IF s = <<>> THEN 0 ELSE Work(Head(s)) + TotalWork(Tail(s))

\* playlists: track entries with titles of their own
PlaylistBatches == {[k \in 1..n |-> TrackRec(TitleAt(k), k, 1)] : n \in 1..MaxWork}

\* artist and label listings: album summaries.  Two releases of one album
\* (same artist, title and year) format to the same folder name.  The tasks
\* of such a batch differ in nothing but their entries, so the batches are
\* taken up to reordering: track counts do not decrease along the list and
\* the folder Y comes after the folder X.
AlbumKinds ==
  {AlbumRec(f, AlbumTracks(n, FALSE)) : f \in {"X", "Y"}, n \in 1..MaxWork}
ArtistBatches ==
  UNION {{s \in [1..n -> AlbumKinds] :
            /\ s[1].folder = "X"
            /\ TotalWork(s) <= MaxWork
            /\ \A k \in 1..(n - 1) :
                  /\ Len(s[k].tracks) <= Len(s[k + 1].tracks)
                  /\ s[k].folder = "Y" => s[k + 1].folder = "Y"}
         : n \in 1..MaxWork}
  \cup {<<AlbumRec("X", AlbumTracks(2, TRUE))>>}

\* one album handed to download_release
ReleaseBatches ==
  {AlbumTracks(n, FALSE) : n \in 1..MaxWork} \cup {AlbumTracks(2, TRUE)}

Batches(m) ==
  CASE m = "playlist" -> PlaylistBatches
    [] m = "artist"   -> ArtistBatches
    [] m = "release"  -> ReleaseBatches
    [] m = "track"    -> {<<TrackRec("a", 1, 1)>>}

Modes == {"playlist", "artist", "release", "track"}

\* sanitize_filepath(self.folder_format.format(**album_attr))
FolderLen == 30
FolderName(folder) == <<Seg(folder, 0, FolderLen)>>

\* ------------------------------------------------------------------ state
VARIABLES
  mode,         \* which entry point runs: download_batch on a playlist or an
                \* artist listing, download_release, download_track
  items,        \* the list handed to _run_multithreaded_download
  env,          \* per item, how the catalog and the network treat it
  run,          \* "first", or "second" when the same command is run again
  present0,     \* the paths that held a file when this run started
  faults,       \* anomalies injected in this run: [hard, transient]
  main,         \* position of the main thread
  pc,           \* position of each task
  trk,          \* album tasks: idx + 1 of the loop over the album's tracks
  attempt,      \* loop variable of the attempt loop
  cur,          \* locals of the running transfer: filename, final_file
  log,          \* per task, one record per track it has handled
  fs,           \* the destination tree: path -> file
  fh,           \* per task, the file its open handle is on
  failed_list,  \* the shared failure list
  overall,      \* completed units of the overall progress task
  total,        \* total of the overall progress task
  ptasks,       \* the per-item progress tasks on display
  ledger,       \* the download ledger (set of recorded identifiers)
  call,         \* the function whose result is looked at on its own, with
                \* its arguments
  ret           \* what that call returned, or that it raised

vars == <<mode, items, env, run, present0, faults, main, pc, trk, attempt, cur, log,
          fs, fh, failed_list, overall, total, ptasks, ledger, call, ret>>

config == <<mode, items, env, call, ret>>

NoCall == [fn |-> "none"]
NoRet == [raised |-> FALSE, value |-> <<>>]

Tasks == DOMAIN items

ItemId == "item_id"

NoCur == [filename |-> NoFile, final_file |-> NoFile]

NoFaults == [hard |-> 0, transient |-> 0]

Fresh ==
  /\ faults = NoFaults
  /\ pc = [t \in Tasks |-> "new"]
  /\ trk = [t \in Tasks |-> 0]
  /\ attempt = [t \in Tasks |-> 0]
  /\ cur = [t \in Tasks |-> NoCur]
  /\ log = [t \in Tasks |-> <<>>]
  /\ fh = [t \in Tasks |-> NoFile]
  /\ failed_list = <<>>
  /\ overall = 0
  /\ total = 0
  /\ ptasks = {}

Init ==
  /\ mode \in Modes
  /\ items \in Batches(mode)
  /\ env = [t \in Tasks |-> "any"]
  /\ run = "first"
  /\ fs = << >>
  /\ present0 = {}
  /\ main = "start"
  /\ ledger = {}
  /\ call = NoCall /\ ret = NoRet
  /\ Fresh

\* ---------------------------------------------------------------- helpers
Last(l) == l[Len(l)]
SetRes(l, r) == [l EXCEPT ![Len(l)].res = r]
\* one more requests.get(url) of the running transfer
Tried(l) == [l EXCEPT ![Len(l)].tries = @ + 1]
\* one more of them has failed with a transient error
Flaked(l) == [l EXCEPT ![Len(l)].transient = @ + 1]
\* the record of one track: its index in the album loop (0 for a track
\* item), the descriptor the catalog gave, the final path and whether it
\* held a file when the transfer looked, the requests sent, how many of
\* them failed with a transient error, and the outcome
Entry(k, desc, final_file, existed, res) ==
  [trk |-> k, desc |-> desc, final |-> final_file, existed |-> existed,
   tries |-> 0, transient |-> 0, tagged |-> TRUE, res |-> res]

\* the outcomes that are errors
Errors == {"get_track_url", "http_error", "write_error", "exhausted", "template",
           "cover"}

\* what the catalog's get_track_url may answer
Descs == {"ok", "sample", "nourl", "raise"}

\* lines 137, 164: "sample" not in parse and parse["sampling_rate"]
Streamable(desc) == desc # "sample"

\* lines 302-303: url = track_url_dict["url"]
HasUrl(desc) == desc # "nourl"

\* an anomaly of the environment uses up one unit of the fault budget
IsTransient(out) == out \in {"conn_error", "transient"}
Inject(out) ==
  CASE out = "ok" -> faults' = faults
    [] IsTransient(out) ->
         faults.transient < MaxTransient /\ faults' = [faults EXCEPT !.transient = @ + 1]
    [] OTHER ->
         faults.hard < MaxFaults /\ faults' = [faults EXCEPT !.hard = @ + 1]

\* The environment of item t: "any" answers anything within the fault
\* budget; "steady" never fails; "flaky" fails the first attempt of the
\* transfer with a transient error and no other; "unavailable" never
\* yields a stream (the catalog call raises, or the URL answers an HTTP
\* error status).
Allowed(t, step, out) ==
  CASE env[t] = "any"    -> TRUE
    [] env[t] = "steady" -> out = "ok"
    [] env[t] = "flaky"  ->
         IF attempt[t] = 0 /\ step = "request" THEN out \in {"ok", "conn_error"}
         ELSE IF attempt[t] = 0 /\ step = "stream" THEN out = "transient"
         ELSE out = "ok"
    [] env[t] = "unavailable" ->
         \/ step = "desc" /\ out \in {"ok", "raise"}
         \/ step = "request" /\ out = "http_error"

\* The templates of the command line.  folder_format is the one the album
\* folder is formatted with (line 68); it is well formed when every
\* placeholder of it is a key of album_attr.  Outside the runs that look at
\* templates it is well formed.
FolderTemplateOk == call.fn = "templates" => call.folder_ok

\* The template a track's name is formatted with (line 312) is fmt_album
\* or fmt_single (lines 66-67), whatever track_format was given; both name
\* keys of filename_attr only (line 382).
TrackTemplateOk(track_fmt) == track_fmt \in {"fmt_album", "fmt_single"}

\* dirn / album_dir of the transfers of task t
DirOf(t) ==
  CASE mode = "artist"  -> PathJoin(Root, FolderName(items[t].folder))
    [] mode = "release" -> PathJoin(Root, FolderName("X"))
    [] OTHER            -> Root

\* the track format handed down: fmt_single for download_batch and
\* download_track, fmt_album for albums
TrackFmt == IF mode \in {"artist", "release"} THEN "fmt_album" ELSE "fmt_single"

\* an album loop that ends after its first track
NextPc_first_only(t, k) == IF mode = "track" THEN "done" ELSE "finally"

\* where task t goes on after the track with index k of its loop
NextPc(t, k) ==
  CASE mode = "artist" -> IF k < Len(items[t].tracks) THEN "album_track" ELSE "finally"
    [] mode = "track"  -> "done"
    [] OTHER           -> "finally"

\* a handler that swallows the error without listing it
Recorded_dropped(fl, t, k, err) == fl

\* a handler that lists the error twice
Recorded_twice(fl, t, k, err) ==
  Append(Append(fl, [task |-> t, trk |-> k, err |-> err]), [task |-> t, trk |-> k, err |-> err])

\* lines 88-90 and 144-145: the error becomes an entry of failed_list;
\* download_track (lines 296-298) only prints it
Recorded(fl, t, k, err) ==
  IF mode = "track" THEN fl
  ELSE Append(fl, [task |-> t, trk |-> k, err |-> err])

\* the track of task t that has index k
TrackOf(t, k) == IF mode = "artist" THEN items[t].tracks[k] ELSE items[t]

\* a loop that runs once more than max_retries
LoopContinues_once_more(a) == a + 1 <= max_retries

\* lines 319-323: the attempt loop goes on after iteration a
LoopContinues(a) == a + 1 < max_retries

\* an advance that takes the unit back, and one that counts the item twice
Advance_back(n) == n - 1
Advance_twice(n) == n + 2

\* line 93: progress.update(overall_task_id, advance=1)
Advance(n) == n + 1

\* ---------------------------------------------------------- main thread
\* download_batch -> _run_multithreaded_download, lines 232-261: the overall
\* progress task is created and one task per item is submitted
Submit ==
  /\ total' = Len(items)
  /\ overall' = 0
  /\ pc' = [t \in Tasks |-> "queued"]
  /\ failed_list' = <<>>

Dispatch ==
  /\ main = "start" /\ mode \in {"playlist", "artist"}
  /\ Submit
  /\ main' = "pool"
  /\ UNCHANGED <<config, run, present0, faults, trk, attempt, cur, log, fs, fh,
                 ptasks, ledger>>

\* a download_from_id that returns when the identifier is in the ledger
Proceeds_unless_known(in_ledger) == ~in_ledger

\* core.py lines 43-44: the ledger is asked for the identifier
\* (add_id=False) and the answer is dropped: "pass" in the one case,
\* fall-through in the other
Proceeds(in_ledger) == IF in_ledger THEN TRUE ELSE TRUE

\* download_release, lines 174-193, called by download_from_id: a failing
\* catalog call or an album that cannot be streamed ends the download
\* (core.py line 54); the KeyError of a malformed folder template (line 184)
\* is caught nowhere and leaves the program
DownloadRelease ==
  /\ main = "start" /\ mode = "release"
  /\ Proceeds(ItemId \in ledger)
  /\ \E out \in {"ok", "raise"} :
       /\ Inject(out)
       /\ IF out = "ok" /\ FolderTemplateOk
            THEN Submit /\ main' = "pool"
            ELSE /\ main' = IF out = "ok" THEN "crashed" ELSE "end"
                 /\ UNCHANGED <<total, overall, pc, failed_list>>
  /\ UNCHANGED <<config, run, present0, trk, attempt, cur, log, fs, fh,
                 ptasks, ledger>>

\* ------------------------------------------------------ _download_and_tag
\* lines 300-317: paths are computed and the short-circuit is taken
BeginTransfer(t, k, desc, tmp_count, multiple) ==
  LET root_dir == RootDir(DirOf(t), multiple)
      filename == TmpFile(root_dir, tmp_count)
      final_file == FinalFile(root_dir, FormattedName(TrackFmt, TrackOf(t, k)))
      existed == IsFile(fs, final_file)
  IN IF ~HasUrl(desc)
       THEN /\ log' = [log EXCEPT ![t] = Append(@, Entry(k, desc, NoFile, FALSE, "nourl"))]
            /\ pc' = [pc EXCEPT ![t] = NextPc(t, k)]
            /\ UNCHANGED <<cur, attempt, failed_list>>
     ELSE IF ~TrackTemplateOk(TrackFmt)
       THEN /\ log' = [log EXCEPT ![t] = Append(@, Entry(k, desc, NoFile, FALSE, "template"))]
            /\ failed_list' = Recorded(failed_list, t, k, "template")
            /\ pc' = [pc EXCEPT ![t] = NextPc(t, k)]
            /\ UNCHANGED <<cur, attempt>>
     ELSE IF AlreadySatisfied(fs, final_file)
       THEN /\ log' = [log EXCEPT ![t] = Append(@, Entry(k, desc, final_file, existed, "present"))]
            /\ pc' = [pc EXCEPT ![t] = NextPc(t, k)]
            /\ cur' = [cur EXCEPT ![t] = [filename |-> filename, final_file |-> final_file]]
            /\ UNCHANGED <<attempt, failed_list>>
     ELSE /\ log' = [log EXCEPT ![t] = Append(@, Entry(k, desc, final_file, existed, "running"))]
          /\ pc' = [pc EXCEPT ![t] = "attempt"]
          /\ cur' = [cur EXCEPT ![t] = [filename |-> filename, final_file |-> final_file]]
          /\ attempt' = [attempt EXCEPT ![t] = 0]
          /\ UNCHANGED failed_list

\* a handler that sends every error back into the loop
Raise_and_retry(t, err) ==
  /\ log' = [log EXCEPT ![t] = SetRes(@, err)]
  /\ failed_list' = Recorded(failed_list, t, trk[t], err)
  /\ pc' = [pc EXCEPT ![t] = "backoff"]

\* an exception leaves _download_and_tag
Raise(t, err) ==
  /\ log' = [log EXCEPT ![t] = SetRes(@, err)]
  /\ failed_list' = Recorded(failed_list, t, trk[t], err)
  /\ pc' = [pc EXCEPT ![t] = NextPc(t, trk[t])]

\* task t is inside the attempt loop of lines 323-349
InTransfer(t) == pc[t] \in {"attempt", "stream", "backoff", "exhausted"}

\* lines 325-332: the request is sent and the temp file is opened
Request(t) ==
  /\ pc[t] = "attempt"
  /\ \E out \in {"ok", "http_error", "conn_error"} :
       /\ Allowed(t, "request", out)
       /\ Inject(out)
       /\ CASE out = "ok" ->
                 /\ fs' = FsOpen(fs, fh, t, cur[t].filename)
                 /\ fh' = FhOpen(fh, t, cur[t].filename)
                 /\ pc' = [pc EXCEPT ![t] = "stream"]
                 /\ log' = [log EXCEPT ![t] = Tried(@)]
                 /\ UNCHANGED failed_list
            [] out = "conn_error" ->
                 /\ pc' = [pc EXCEPT ![t] = "backoff"]
                 /\ log' = [log EXCEPT ![t] = Flaked(Tried(@))]
                 /\ UNCHANGED <<fs, fh, failed_list>>
            [] out = "http_error" ->
                 /\ log' = [log EXCEPT ![t] = SetRes(Tried(@), "http_error")]
                 /\ failed_list' = Recorded(failed_list, t, trk[t], "http_error")
                 /\ pc' = [pc EXCEPT ![t] = NextPc(t, trk[t])]
                 /\ UNCHANGED <<fs, fh>>
  /\ UNCHANGED <<config, run, present0, main, trk, attempt, cur, overall, total,
                 ptasks, ledger>>

\* what a file holds when its writer has written the whole payload: the
\* payload, unless another writer wrote into the same file meanwhile
ClosedData(f, h, t) ==
  IF h[t] \in DOMAIN f /\ f[h[t]].dirty THEN {"partial", "complete"} ELSE {"complete"}

\* lines 332-338: the body is streamed into the temp file
Stream(t) ==
  /\ pc[t] = "stream"
  /\ \E out \in {"ok", "transient", "write_error"} :
       /\ Allowed(t, "stream", out)
       /\ Inject(out)
       /\ fh' = FhClose(fh, t)
       /\ CASE out = "ok" ->
                 /\ \E data \in ClosedData(fs, fh, t) : fs' = FsClose(fs, fh, t, data)
                 /\ pc' = [pc EXCEPT ![t] = "tag"]
                 /\ UNCHANGED <<log, failed_list>>
            [] out = "transient" ->
                 /\ fs' = FsClose(fs, fh, t, "partial")
                 /\ pc' = [pc EXCEPT ![t] = "backoff"]
                 /\ log' = [log EXCEPT ![t] = Flaked(@)]
                 /\ UNCHANGED failed_list
            [] out = "write_error" ->
                 /\ fs' = FsClose(fs, fh, t, "partial")
                 /\ Raise(t, "write_error")
  /\ UNCHANGED <<config, run, present0, main, trk, attempt, cur, overall, total,
                 ptasks, ledger>>

\* lines 339-347: the handler of a transient error; the temp file is
\* removed if it is there, and the loop goes on or ends
Backoff(t) ==
  /\ pc[t] = "backoff"
  /\ IF IsFile(fs, cur[t].filename)
       THEN /\ fs' = FsRemove(fs, cur[t].filename)
            /\ fh' = FhRemove(fh, cur[t].filename)
       ELSE UNCHANGED <<fs, fh>>
  /\ IF LoopContinues(attempt[t])
       THEN /\ attempt' = [attempt EXCEPT ![t] = @ + 1]
            /\ pc' = [pc EXCEPT ![t] = "attempt"]
            /\ UNCHANGED <<log, failed_list>>
       ELSE /\ pc' = [pc EXCEPT ![t] = "exhausted"]
            /\ UNCHANGED <<attempt, log, failed_list>>
  /\ UNCHANGED <<config, run, present0, faults, main, trk, cur, overall, total,
                 ptasks, ledger>>

\* lines 351-352: after the loop, "if not success: raise"; the failure is
\* reported by the handler that catches it
RaiseExhausted(t) ==
  /\ pc[t] = "exhausted"
  /\ Raise(t, "exhausted")
  /\ UNCHANGED <<config, run, present0, faults, main, trk, attempt, cur, fs, fh,
                 overall, total, ptasks, ledger>>

\* The runs that look at tagging and cover art carry call.fn = "art":
\* call.no_cover is the flag of the command line and call.image the shape
\* of the "image" value of the metadata: "absent" (no such key), "null"
\* (the key holds None) or "url" (a record with a "large" URL).  Outside
\* these runs no_cover is set and the tagger does not fail.
NoCover == IF call.fn = "art" THEN call.no_cover ELSE TRUE

\* ind_cover as the callers pass it: True from download_batch (line 229)
\* and download_track (line 295), False for the tracks of an album (lines
\* 142 and 193)
IndCover == mode \in {"playlist", "track"}

\* lines 354-357: the tagger returns or raises; what it raises is swallowed
TagOutcomes == IF call.fn = "art" THEN {"ok", "raise"} ELSE {"ok"}

\* lines 364-366: img_url = album_or_track_metadata.get("image", {})
\* .get("large"), outside any try: None has no get
CoverLookup(image) ==
  CASE image = "null"   -> "raise"
    [] image = "absent" -> "none"
    [] OTHER            -> "url"

\* line 367: img_path = os.path.join(root_dir, formatted_name)[:240] +
\* ".jpg", which is final_file with the other extension
ImgPath(final_file) == SubSeq(final_file, 1, Len(final_file) - 1) \o <<Seg(".jpg", 0, 4)>>

\* lines 363-372: what the cover step of task t does
CoverStep(t) ==
  IF ~IndCover \/ NoCover THEN {"none"}
  ELSE IF CoverLookup(call.image) = "raise" THEN {"raise"}
  ELSE IF CoverLookup(call.image) = "none" THEN {"none"}
  ELSE {"written", "failed"}

\* lines 354-372: the tagger runs on the temp file (its failure is
\* swallowed), then the temp file is renamed if it is still there, then the
\* cover of a single item is fetched
Publish(t) ==
  /\ pc[t] = "tag"
  /\ \E tag \in TagOutcomes, cover \in CoverStep(t) :
       LET renamed == IsFile(fs, cur[t].filename)
           f1 == IF renamed THEN FsRename(fs, cur[t].filename, cur[t].final_file) ELSE fs
           img_path == ImgPath(cur[t].final_file)
           out == cover
           l1 == [log[t] EXCEPT ![Len(log[t])].tagged = (tag = "ok")]
       IN /\ fh' = IF renamed THEN FhRename(fh, cur[t].filename, cur[t].final_file) ELSE fh
          /\ fs' = IF out = "written" /\ ~IsFile(f1, img_path)
                     THEN Put(f1, img_path, [data |-> "complete", dirty |-> FALSE])
                     ELSE f1
          /\ IF out = "raise"
               THEN /\ log' = [log EXCEPT ![t] = SetRes(l1, "cover")]
                    /\ failed_list' = Recorded(failed_list, t, trk[t], "cover")
               ELSE /\ log' = [log EXCEPT ![t] = SetRes(l1, IF renamed THEN "published" ELSE "lost")]
                    /\ UNCHANGED failed_list
  /\ pc' = [pc EXCEPT ![t] = NextPc(t, trk[t])]
  /\ UNCHANGED <<config, run, present0, faults, main, trk, attempt, cur,
                 overall, total, ptasks, ledger>>

\* ------------------------------------------------------------- the tasks
\* The threads of the executor run what was submitted while the main thread
\* waits for them (line 262), while it waits in the executor's exit after a
\* KeyboardInterrupt, and, when that wait was interrupted too, while the
\* exception travels to cli.main and after.
PoolAlive == {"pool", "shutdown", "stopped", "swept"}

\* lines 76-86 and 250-261: a worker of the pool takes task t up and shows it
Taken(t) ==
  /\ main \in PoolAlive /\ pc[t] = "queued"
  /\ Cardinality({u \in Tasks : pc[u] \notin {"queued", "done"}}) < MAX_WORKERS
  /\ ptasks' = ptasks \cup {t}

\* _process_real_track, lines 151-172
ProcessRealTrack(t) ==
  /\ Taken(t) /\ ~IsAlbumSummary(items[t])
  /\ \E desc \in Descs :
       /\ Allowed(t, "desc", desc)
       /\ Inject(desc)
       /\ CASE desc = "raise" ->
                 /\ log' = [log EXCEPT ![t] = Append(@, Entry(0, desc, NoFile, FALSE, "get_track_url"))]
                 /\ failed_list' = Recorded(failed_list, t, 0, "get_track_url")
                 /\ pc' = [pc EXCEPT ![t] = "finally"]
                 /\ UNCHANGED <<cur, attempt>>
            [] desc # "raise" /\ ~Streamable(desc) ->
                 /\ log' = [log EXCEPT ![t] = Append(@, Entry(0, desc, NoFile, FALSE, "skipped"))]
                 /\ pc' = [pc EXCEPT ![t] = "finally"]
                 /\ UNCHANGED <<cur, attempt, failed_list>>
            [] OTHER ->
                 /\ BeginTransfer(t, 0, desc, t, Multiple(items[t], BatchIsMultiple(mode, items)))
  /\ UNCHANGED <<config, run, present0, main, trk, fs, fh, overall, total, ledger>>

\* _process_album_batch, lines 97-125 and 147-148: the album's metadata
ProcessAlbumBatch(t) ==
  /\ Taken(t) /\ IsAlbumSummary(items[t])
  /\ \E out \in {"ok", "raise"} :
       /\ Allowed(t, "album", out)
       /\ Inject(out)
       /\ IF out = "ok" /\ FolderTemplateOk
            THEN /\ pc' = [pc EXCEPT ![t] = NextPc(t, 0)]
                 /\ UNCHANGED failed_list
            ELSE /\ pc' = [pc EXCEPT ![t] = "finally"]
                 /\ failed_list' = Recorded(failed_list, t, 0, "album")
  /\ trk' = [trk EXCEPT ![t] = 0]
  /\ UNCHANGED <<config, run, present0, main, attempt, cur, log, fs, fh, overall,
                 total, ledger>>

\* _process_album_batch, lines 127-145: one iteration of the track loop
AlbumTrack(t) ==
  /\ pc[t] = "album_track"
  /\ LET k == trk[t] + 1 IN
     /\ trk' = [trk EXCEPT ![t] = k]
     /\ \E desc \in Descs :
          /\ Allowed(t, "desc", desc)
          /\ Inject(desc)
          /\ CASE desc = "raise" ->
                    /\ log' = [log EXCEPT ![t] = Append(@, Entry(k, desc, NoFile, FALSE, "get_track_url"))]
                    /\ failed_list' = Recorded(failed_list, t, k, "get_track_url")
                    /\ pc' = [pc EXCEPT ![t] = NextPc(t, k)]
                    /\ UNCHANGED <<cur, attempt>>
               [] desc # "raise" /\ ~Streamable(desc) ->
                    /\ log' = [log EXCEPT ![t] = Append(@, Entry(k, desc, NoFile, FALSE, "skipped"))]
                    /\ pc' = [pc EXCEPT ![t] = NextPc(t, k)]
                    /\ UNCHANGED <<cur, attempt, failed_list>>
               [] OTHER ->
                    /\ BeginTransfer(t, k, desc, k,
                                     Multiple(items[t].tracks[k], IsMultiple(items[t].tracks)))
  /\ UNCHANGED <<config, run, present0, main, fs, fh, overall, total, ptasks, ledger>>

\* line 93: the finally clause advances the overall progress task
Finally(t) ==
  /\ pc[t] = "finally"
  /\ overall' = Advance(overall)
  /\ pc' = [pc EXCEPT ![t] = "remove"]
  /\ UNCHANGED <<config, run, present0, faults, main, trk, attempt, cur, log, fs, fh,
                 failed_list, total, ptasks, ledger>>

\* line 94: the task's own progress entry is removed
RemoveTask(t) ==
  /\ pc[t] = "remove"
  /\ ptasks' = ptasks \ {t}
  /\ pc' = [pc EXCEPT ![t] = "done"]
  /\ UNCHANGED <<config, run, present0, faults, main, trk, attempt, cur, log, fs, fh,
                 failed_list, overall, total, ledger>>

\* lines 262-271: every future has completed; the outcome is reported
Join ==
  /\ main = "pool"
  /\ \A t \in Tasks : pc[t] = "done"
  /\ main' = "joined"
  /\ UNCHANGED <<config, run, present0, faults, pc, trk, attempt, cur, log, fs, fh,
                 failed_list, overall, total, ptasks, ledger>>

\* download_batch returns to handle_url
FinishBatch ==
  /\ main = "joined" /\ mode \in {"playlist", "artist"}
  /\ main' = "end"
  /\ UNCHANGED <<config, run, present0, faults, pc, trk, attempt, cur, log, fs, fh,
                 failed_list, overall, total, ptasks, ledger>>

\* download_track, lines 273-298, called by download_from_id: no sample
\* check, the transfer runs on the main thread
DownloadTrack ==
  /\ main = "start" /\ mode = "track"
  /\ Proceeds(ItemId \in ledger)
  /\ \E desc \in Descs :
       /\ Allowed(1, "desc", desc)
       /\ Inject(desc)
       /\ IF desc = "raise"
            THEN /\ main' = "ledger"
                 /\ log' = [log EXCEPT ![1] = Append(@, Entry(0, desc, NoFile, FALSE, "get_track_url"))]
                 /\ UNCHANGED <<pc, cur, attempt, ptasks, failed_list>>
            ELSE /\ main' = "single"
                 /\ ptasks' = {1}
                 /\ BeginTransfer(1, 0, desc, 1, 0)
  /\ UNCHANGED <<config, run, present0, trk, fs, fh, overall, total, ledger>>

\* handle_download_id(db, item_id, add_id=True): the identifier is recorded
LedgerRecord(l, id) == l \cup {id}

\* download_from_id, line 53: reached whenever download_id_by_type returns
LedgerAdd ==
  /\ \/ mode = "release" /\ main = "joined"
     \/ mode = "track" /\ main = "single" /\ pc[1] = "done"
     \/ mode = "track" /\ main = "ledger"
  /\ ledger' = LedgerRecord(ledger, ItemId)
  /\ main' = "end"
  /\ UNCHANGED <<config, run, present0, faults, pc, trk, attempt, cur, log, fs, fh,
                 failed_list, overall, total, ptasks>>

\* cli._remove_leftovers, lines 81-86, in the finally clause of main
IsTmp(p) == p # <<>> /\ Last(p).c = ".tmp"
RemoveLeftovers ==
  /\ main \in {"end", "crashed", "stopped"}
  /\ fs' = [p \in {q \in DOMAIN fs : ~IsTmp(q)} |-> fs[p]]
  /\ main' = CASE main = "crashed" -> "aborted"
              [] main = "stopped" -> "swept"
              [] OTHER            -> "exit"
  /\ UNCHANGED <<config, run, present0, faults, pc, trk, attempt, cur, log, fh,
                 failed_list, overall, total, ptasks, ledger>>

\* A KeyboardInterrupt is raised in the main thread.  While the main thread
\* waits for the futures (downloader.py, lines 262-263) the exception leaves
\* the "with ThreadPoolExecutor" block, whose exit waits for the threads of
\* the pool; raised again during that wait, it leaves the wait and reaches
\* cli.main (lines 154-157) while the threads go on.  In download_track the
\* transfer runs on the main thread: the exception leaves the attempt loop,
\* which closes the temp file it was writing.
Interrupt ==
  /\ CASE main = "pool" ->
            /\ main' = "shutdown"
            /\ UNCHANGED <<pc, log, fs, fh>>
       [] main = "shutdown" ->
            /\ main' = "stopped"
            /\ UNCHANGED <<pc, log, fs, fh>>
       [] main = "single" /\ InTransfer(1) ->
            /\ main' = "stopped"
            /\ pc' = [pc EXCEPT ![1] = "done"]
            /\ log' = [log EXCEPT ![1] = SetRes(@, "interrupted")]
            /\ fh' = FhClose(fh, 1)
            /\ fs' = IF fh[1] \in DOMAIN fs THEN FsClose(fs, fh, 1, "partial") ELSE fs
       [] OTHER -> FALSE
  /\ UNCHANGED <<config, run, present0, faults, trk, attempt, cur, failed_list,
                 overall, total, ptasks, ledger>>

\* the exit of the "with ThreadPoolExecutor" block after an interrupt: every
\* thread of the pool has ended, the exception goes on to cli.main
ShutdownDone ==
  /\ main = "shutdown"
  /\ \A t \in Tasks : pc[t] = "done"
  /\ main' = "stopped"
  /\ UNCHANGED <<config, run, present0, faults, pc, trk, attempt, cur, log, fs, fh,
                 failed_list, overall, total, ptasks, ledger>>

\* the same command is run again on the same destination
Rerun ==
  /\ main = "exit" /\ run = "first"
  /\ run' = "second"
  /\ present0' = DOMAIN fs
  /\ main' = "start"
  /\ faults' = NoFaults
  /\ pc' = [t \in Tasks |-> "new"]
  /\ trk' = [t \in Tasks |-> 0]
  /\ attempt' = [t \in Tasks |-> 0]
  /\ cur' = [t \in Tasks |-> NoCur]
  /\ log' = [t \in Tasks |-> <<>>]
  /\ fh' = [t \in Tasks |-> NoFile]
  /\ failed_list' = <<>>
  /\ overall' = 0
  /\ total' = 0
  /\ ptasks' = {}
  /\ UNCHANGED <<config, fs, ledger>>

Next ==
  \/ Dispatch
  \/ DownloadRelease
  \/ DownloadTrack
  \/ \E t \in Tasks : ProcessRealTrack(t)
  \/ \E t \in Tasks : ProcessAlbumBatch(t)
  \/ \E t \in Tasks : AlbumTrack(t)
  \/ \E t \in Tasks : Request(t)
  \/ \E t \in Tasks : Stream(t)
  \/ \E t \in Tasks : Backoff(t)
  \/ \E t \in Tasks : RaiseExhausted(t)
  \/ \E t \in Tasks : Publish(t)
  \/ \E t \in Tasks : Finally(t)
  \/ \E t \in Tasks : RemoveTask(t)
  \/ Join
  \/ FinishBatch
  \/ LedgerAdd
  \/ RemoveLeftovers
  \/ Rerun

Spec == Init /\ [][Next]_vars

\* ------------------------------------------------- the end-to-end scenario
\* A playlist of three tracks: one whose transfer fails its first attempt
\* with a transient error, one whose stream is unavailable, one whose final
\* file is already on disk, in any order.
ScenarioItems == [k \in 1..3 |-> TrackRec(TitleAt(k), k, 1)]
ScenarioEnvs ==
  {e \in [1..3 -> {"flaky", "unavailable", "steady"}] : \A j, k \in 1..3 : e[j] = e[k] => j = k}
ScenarioFinal(k) == FinalFile(Root, FormattedName("fmt_single", ScenarioItems[k]))
RoleOf(role) == CHOOSE k \in 1..3 : env[k] = role

InitScenario ==
  /\ mode = "playlist"
  /\ items = ScenarioItems
  /\ env \in ScenarioEnvs
  /\ run = "first"
  /\ fs = Put(<< >>, ScenarioFinal(RoleOf("steady")), [data |-> "complete", dirty |-> FALSE])
  /\ present0 = {ScenarioFinal(RoleOf("steady"))}
  /\ main = "start"
  /\ ledger = {}
  /\ call = NoCall /\ ret = NoRet
  /\ Fresh

NextScenario ==
  \/ Dispatch
  \/ \E t \in Tasks : ProcessRealTrack(t)
  \/ \E t \in Tasks : Request(t)
  \/ \E t \in Tasks : Stream(t)
  \/ \E t \in Tasks : Backoff(t)
  \/ \E t \in Tasks : Publish(t)
  \/ \E t \in Tasks : Finally(t)
  \/ \E t \in Tasks : RemoveTask(t)
  \/ Join
  \/ FinishBatch
  \/ RemoveLeftovers

SpecScenario == InitScenario /\ [][NextScenario]_vars

\* ------------------------------------------------- runs with templates
\* One run of a playlist, an artist listing or an album with the templates
\* of the command line well formed or not: call.folder_ok for folder_format,
\* call.track_ok for track_format.
InitTemplate ==
  /\ mode \in {"playlist", "artist", "release"}
  /\ items \in Batches(mode)
  /\ env = [t \in Tasks |-> "any"]
  /\ call \in {[fn |-> "templates", folder_ok |-> f, track_ok |-> k] :
                 f \in BOOLEAN, k \in BOOLEAN}
  /\ ret = NoRet
  /\ run = "first"
  /\ fs = << >>
  /\ present0 = {}
  /\ main = "start"
  /\ ledger = {}
  /\ Fresh

NextTemplate ==
  \/ Dispatch
  \/ DownloadRelease
  \/ \E t \in Tasks : ProcessRealTrack(t)
  \/ \E t \in Tasks : ProcessAlbumBatch(t)
  \/ \E t \in Tasks : AlbumTrack(t)
  \/ \E t \in Tasks : Request(t)
  \/ \E t \in Tasks : Stream(t)
  \/ \E t \in Tasks : Backoff(t)
  \/ \E t \in Tasks : RaiseExhausted(t)
  \/ \E t \in Tasks : Publish(t)
  \/ \E t \in Tasks : Finally(t)
  \/ \E t \in Tasks : RemoveTask(t)
  \/ Join
  \/ FinishBatch
  \/ LedgerAdd
  \/ RemoveLeftovers

SpecTemplate == InitTemplate /\ [][NextTemplate]_vars

\* ------------------------------------------- runs with tags and covers
\* One run of a playlist, an album or a single track in which the tagger
\* may fail and the cover of a single item is looked up and fetched.
InitArt ==
  /\ mode \in {"playlist", "release", "track"}
  /\ items \in Batches(mode)
  /\ env = [t \in Tasks |-> "any"]
  /\ call \in {[fn |-> "art", no_cover |-> n, image |-> i] :
                 n \in BOOLEAN, i \in {"absent", "null", "url"}}
  /\ ret = NoRet
  /\ run = "first"
  /\ fs = << >>
  /\ present0 = {}
  /\ main = "start"
  /\ ledger = {}
  /\ Fresh

NextArt ==
  \/ Dispatch
  \/ DownloadRelease
  \/ DownloadTrack
  \/ \E t \in Tasks : ProcessRealTrack(t)
  \/ \E t \in Tasks : Request(t)
  \/ \E t \in Tasks : Stream(t)
  \/ \E t \in Tasks : Backoff(t)
  \/ \E t \in Tasks : RaiseExhausted(t)
  \/ \E t \in Tasks : Publish(t)
  \/ \E t \in Tasks : Finally(t)
  \/ \E t \in Tasks : RemoveTask(t)
  \/ Join
  \/ FinishBatch
  \/ LedgerAdd
  \/ RemoveLeftovers

SpecArt == InitArt /\ [][NextArt]_vars

\* ------------------------------------------------ runs that are interrupted
\* One run of a playlist, an album or a single track during which the user
\* may interrupt the program.
InitInterrupt ==
  /\ mode \in {"playlist", "release", "track"}
  /\ items \in Batches(mode)
  /\ env = [t \in Tasks |-> "any"]
  /\ call = NoCall /\ ret = NoRet
  /\ run = "first"
  /\ fs = << >>
  /\ present0 = {}
  /\ main = "start"
  /\ ledger = {}
  /\ Fresh

NextInterrupt ==
  \/ Dispatch
  \/ DownloadRelease
  \/ DownloadTrack
  \/ \E t \in Tasks : ProcessRealTrack(t)
  \/ \E t \in Tasks : Request(t)
  \/ \E t \in Tasks : Stream(t)
  \/ \E t \in Tasks : Backoff(t)
  \/ \E t \in Tasks : RaiseExhausted(t)
  \/ \E t \in Tasks : Publish(t)
  \/ \E t \in Tasks : Finally(t)
  \/ \E t \in Tasks : RemoveTask(t)
  \/ Join
  \/ FinishBatch
  \/ LedgerAdd
  \/ Interrupt
  \/ ShutdownDone
  \/ RemoveLeftovers

SpecInterrupt == InitInterrupt /\ [][NextInterrupt]_vars

\* ------------------------------------------------------ runs with discs
\* One run of an album, alone or as the one entry of an artist listing,
\* whose tracks carry the disc number 1 or 2 or none, on a network that
\* does not fail.
DiscAlbums ==
  UNION {{[k \in 1..n |-> TrackRec("a", k, m[k])] : m \in [1..n -> 0..2]}
         : n \in 1..MaxWork}

InitDisc ==
  /\ mode \in {"artist", "release"}
  /\ items \in IF mode = "artist" THEN {<<AlbumRec("X", a)>> : a \in DiscAlbums}
                ELSE DiscAlbums
  /\ env = [t \in Tasks |-> "steady"]
  /\ call = NoCall /\ ret = NoRet
  /\ run = "first"
  /\ fs = << >>
  /\ present0 = {}
  /\ main = "start"
  /\ ledger = {}
  /\ Fresh

NextDisc ==
  \/ Dispatch
  \/ DownloadRelease
  \/ \E t \in Tasks : ProcessRealTrack(t)
  \/ \E t \in Tasks : ProcessAlbumBatch(t)
  \/ \E t \in Tasks : AlbumTrack(t)
  \/ \E t \in Tasks : Request(t)
  \/ \E t \in Tasks : Stream(t)
  \/ \E t \in Tasks : Publish(t)
  \/ \E t \in Tasks : Finally(t)
  \/ \E t \in Tasks : RemoveTask(t)
  \/ Join
  \/ FinishBatch
  \/ LedgerAdd
  \/ RemoveLeftovers

SpecDisc == InitDisc /\ [][NextDisc]_vars

\* ------------------------------------------------- functions on their own
\* The state of the rest of the program while one function is looked at.
Idle ==
  /\ mode = "none" /\ items = <<>> /\ env = <<>>
  /\ run = "first" /\ fs = << >> /\ present0 = {}
  /\ ledger = {}
  /\ Fresh

\* the call returns value, or raises
Returns(value) ==
  /\ ret' = [raised |-> FALSE, value |-> value]
  /\ main' = "returned"
Raises ==
  /\ ret' = [raised |-> TRUE, value |-> <<>>]
  /\ main' = "raised"

\* ---------------------------------------------- download_batch: the filter
MaxList == 4
MaxRun == 5

\* str.lower() on the characters that occur
Lower(ch) ==
  CASE ch = "A" -> "a"
    [] ch = "C" -> "c"
    [] ch = "D" -> "d"
    [] ch = "V" -> "v"
    [] OTHER    -> ch
LowerStr(str) == [k \in DOMAIN str |-> Lower(str[k])]

\* sub in str
Contains(str, sub) ==
  \E i \in 0..(Len(str) - Len(sub)) : SubSeq(str, i + 1, i + Len(sub)) = sub

Various == <<"v", "a", "r", "i", "o", "u", "s">>

\* An entry of the listing: the keys it carries, the keys of its artist
\* object, and the artist's name.
Release(keys, artist_keys, name) ==
  [keys |-> keys, artist_keys |-> artist_keys, name |-> name]

\* an album summary as the catalog lists it
Album(name) == Release({"id", "title", "tracks_count", "artist"}, {"name"}, name)

ArtistNames ==
  { <<"A", "b">>, <<"a", "b">>, <<"A", "b", "&", "C">>, <<"b">>, <<"C">>,
    <<"V">> \o Tail(Various), <<>> }

\* n copies of x
Copies(n, x) == [k \in 1..n |-> x]

\* the listings the filter is applied to: every short list of album
\* summaries, lists of three runs of equal names, and short lists of
\* entries that lack fields
NamedLists == UNION {[1..n -> {Album(a) : a \in ArtistNames}] : n \in 0..MaxList}
RunLists ==
  {Copies(i, Album(<<"A", "b">>)) \o Copies(j, Album(<<"C">>)) \o Copies(k, Album(<<"D">>))
     : i \in 0..MaxRun, j \in 0..MaxRun, k \in 0..MaxRun}
PartialEntries ==
  {Release(keys, ak, <<"A", "b">>) :
     keys \in {{"tracks_count", "artist", "title"}, {"tracks_count", "artist"},
               {"tracks_count", "title"}, {"artist", "title"}, {"title"}},
     ak \in {{"name"}, {}}}
  \cup {Album(<<"C">>), Release({"tracks_count", "artist"}, {"name"}, <<"C">>)}
PartialLists == UNION {[1..n -> PartialEntries] : n \in 0..(MaxList - 1)}

\* line 202: the listing holds albums, judged by its first entry
HoldsAlbums(track_list) ==
  /\ track_list # <<>>
  /\ "tracks_count" \in track_list[1].keys
  /\ "artist" \in track_list[1].keys

\* line 204: item['artist']['name'] for the entries that carry an artist;
\* the subscript raises KeyError when the artist object has no name
WithArtist(track_list) == SelectSeq(track_list, LAMBDA e : "artist" \in e.keys)
ArtistsRaise(track_list) ==
  \E k \in DOMAIN track_list :
     "artist" \in track_list[k].keys /\ "name" \notin track_list[k].artist_keys
Artists(track_list) ==
  [k \in DOMAIN WithArtist(track_list) |-> WithArtist(track_list)[k].name]

\* Counter(artists).most_common(1)[0]: the count of the first name, in
\* order of first occurrence, that no other name outnumbers
CountOf(artists, x) == Cardinality({k \in DOMAIN artists : artists[k] = x})
MostCommon(artists) ==
  LET first == CHOOSE k \in DOMAIN artists :
                 /\ \A j \in DOMAIN artists :
                       CountOf(artists, artists[j]) <= CountOf(artists, artists[k])
                 /\ \A j \in 1..(k - 1) :
                       CountOf(artists, artists[j]) < CountOf(artists, artists[k])
  IN [main_artist |-> artists[first], count |-> CountOf(artists, artists[first])]

\* a threshold that is reached rather than exceeded
ShareExceeds_or_reaches(count, n) == 5 * count >= 2 * n

\* line 210: count / len(track_list) > 0.4
ShareExceeds(count, n) == 5 * count > 2 * n

\* line 215: item.get('artist', {}).get('name', '')
ItemArtist(e) ==
  IF "artist" \in e.keys /\ "name" \in e.artist_keys THEN e.name ELSE <<>>

\* lines 219-221
Kept(main_artist, e) ==
  \/ Contains(LowerStr(ItemArtist(e)), LowerStr(main_artist))
  \/ Contains(LowerStr(main_artist), LowerStr(ItemArtist(e)))
  \/ Contains(LowerStr(ItemArtist(e)), Various)

\* line 224: the message about a dropped entry reads item['title']
DropRaises(main_artist, track_list) ==
  \E k \in DOMAIN track_list :
     ~Kept(main_artist, track_list[k]) /\ "title" \notin track_list[k].keys

\* lines 198-227: final_list, or the exception that leaves download_batch
FinalList(track_list) ==
  IF ~HoldsAlbums(track_list) THEN [raised |-> FALSE, value |-> track_list]
  ELSE IF ArtistsRaise(track_list) THEN [raised |-> TRUE, value |-> <<>>]
  ELSE LET mc == MostCommon(Artists(track_list)) IN
       IF ~ShareExceeds(mc.count, Len(track_list))
         THEN [raised |-> FALSE, value |-> track_list]
       ELSE IF DropRaises(mc.main_artist, track_list)
         THEN [raised |-> TRUE, value |-> <<>>]
       ELSE [raised |-> FALSE,
             value |-> SelectSeq(track_list, LAMBDA e : Kept(mc.main_artist, e))]

InitFilter ==
  /\ call \in {[fn |-> "download_batch", track_list |-> l] :
                 l \in NamedLists \cup RunLists \cup PartialLists}
  /\ ret = NoRet
  /\ main = "start"
  /\ Idle

\* download_batch up to the hand-over to the pool (line 229)
FilterBatch ==
  /\ main = "start" /\ call.fn = "download_batch"
  /\ LET r == FinalList(call.track_list) IN
       IF r.raised THEN Raises ELSE Returns(r.value)
  /\ UNCHANGED <<mode, items, env, call, run, present0, faults, pc, trk, attempt, cur,
                 log, fs, fh, failed_list, overall, total, ptasks, ledger>>

NextFilter == FilterBatch

SpecFilter == InitFilter /\ [][NextFilter]_vars

\* ------------------------------------------------------------ _get_format
\* None, and a value that is there
Absent == [some |-> FALSE, v |-> 0]
Some(v) == [some |-> TRUE, v |-> v]

\* core.py line 20: the quality tiers
QUALITIES == {5, 6, 7, 27}

\* What get_track_url answers: a descriptor with the keys it carries, its
\* bit depth and its sampling rate in tenths of kHz.
Descriptor(keys, bit_depth, sampling_rate) ==
  [keys |-> keys, bit_depth |-> bit_depth, sampling_rate |-> sampling_rate]
Descriptors ==
  {Descriptor({"bit_depth", "sampling_rate"}, b, r) : b \in {16, 24}, r \in {441, 960, 1920}}
  \cup {Descriptor({"bit_depth"}, b, 0) : b \in {16, 24}}
  \cup {Descriptor({"sampling_rate"}, 0, 441), Descriptor({}, 0, 0)}

\* the result tuple of _get_format
FormatResult(format, quality_met, bit_depth, sampling_rate) ==
  [format |-> format, quality_met |-> quality_met,
   bit_depth |-> bit_depth, sampling_rate |-> sampling_rate]

\* a downgrade test that also fires at tier 6
Downgraded_from_six(q, d) == q >= 6 /\ "bit_depth" \in d.keys /\ d.bit_depth = 16

\* line 394: int(self.quality) > 6 and new_track_dict.get("bit_depth") == 16
Downgraded(q, d) == q > 6 /\ "bit_depth" \in d.keys /\ d.bit_depth = 16

\* lines 388-396.  c.n_tracks is the number of items of item_dict["tracks"],
\* c.track_url_dict the descriptor handed in (or None), c.answer what the
\* catalog answers when it is asked.  The result says whether the call
\* raised, what it returned and how often the catalog was asked.
GetFormat(c) ==
  IF c.quality = 5
    THEN [raised |-> FALSE, lookups |-> 0,
          value |-> FormatResult("MP3", TRUE, Absent, Absent)]
  ELSE IF ~c.is_track_id /\ c.n_tracks = 0
    THEN [raised |-> TRUE, lookups |-> 0, value |-> <<>>]
  ELSE
    LET asked == ~c.track_url_dict.some
        n == IF asked THEN 1 ELSE 0
        unknown(quality_met) ==
          [raised |-> FALSE, lookups |-> n,
           value |-> FormatResult("Unknown", quality_met, Absent, Absent)]
    IN IF asked /\ ~c.answer.some THEN unknown(TRUE)
       ELSE LET d == IF asked THEN c.answer.v ELSE c.track_url_dict.v
                quality_met == ~Downgraded(c.quality, d)
            IN IF "bit_depth" \notin d.keys \/ "sampling_rate" \notin d.keys
                 THEN unknown(quality_met)
                 ELSE [raised |-> FALSE, lookups |-> n,
                       value |-> FormatResult("FLAC", quality_met,
                                              Some(d.bit_depth), Some(d.sampling_rate))]

InitFormat ==
  /\ call \in {[fn |-> "_get_format", quality |-> q, is_track_id |-> it, n_tracks |-> n,
                  track_url_dict |-> tud, answer |-> a] :
                 q \in QUALITIES, it \in BOOLEAN, n \in 0..MaxWork,
                 tud \in {Absent} \cup {Some(d) : d \in Descriptors},
                 a \in {Absent} \cup {Some(d) : d \in Descriptors}}
  /\ ret = NoRet
  /\ main = "start"
  /\ Idle

CallGetFormat ==
  /\ main = "start" /\ call.fn = "_get_format"
  /\ ret' = GetFormat(call)
  /\ main' = IF GetFormat(call).raised THEN "raised" ELSE "returned"
  /\ UNCHANGED <<mode, items, env, call, run, present0, faults, pc, trk, attempt, cur,
                 log, fs, fh, failed_list, overall, total, ptasks, ledger>>

NextFormat == CallGetFormat

SpecFormat == InitFormat /\ [][NextFormat]_vars

\* ------------------------------------------------- final_file on its own
\* the longest formatted name and the deepest nesting of folders tried
MaxName == 260
MaxDepth == 3

\* destination directories: the root, and the root with album folders of
\* 100 characters below it
DirAt(depth) ==
  IF depth = 0 THEN Root
  ELSE [k \in 1..(1 + 2 * depth) |->
          IF k = 1 THEN Root[1]
          ELSE IF k % 2 = 0 THEN Sep ELSE Seg("folder", k \div 2, 100)]

InitFinalFile ==
  /\ call \in {[fn |-> "final_file", root_dir |-> DirAt(d),
                  formatted_name |-> <<Seg("name", 0, n)>>] :
                 d \in 0..MaxDepth, n \in 1..MaxName}
  /\ ret = NoRet
  /\ main = "start"
  /\ Idle

\* _download_and_tag, line 313
ResolveFinalFile ==
  /\ main = "start" /\ call.fn = "final_file"
  /\ Returns(FinalFile(call.root_dir, call.formatted_name))
  /\ UNCHANGED <<mode, items, env, call, run, present0, faults, pc, trk, attempt, cur,
                 log, fs, fh, failed_list, overall, total, ptasks, ledger>>

NextFinalFile == ResolveFinalFile

SpecFinalFile == InitFinalFile /\ [][NextFinalFile]_vars

\* ------------------------------------------------------------ properties
IsFinal(p) == p # <<>> /\ Last(p).c \in {".flac", ".mp3"}
Writers(p) == {t \in Tasks : fh[t] = p}
InFlight(t) == pc[t] \in {"attempt", "stream", "backoff", "exhausted", "tag"}
Entries == {te \in Tasks \X (1..MaxWork) : te[2] \in DOMAIN log[te[1]]}
E(te) == log[te[1]][te[2]]
Scheduled == mode # "track"
Listed(t, k, err) ==
  \E i \in DOMAIN failed_list : failed_list[i] = [task |-> t, trk |-> k, err |-> err]

\* C1 (as claimed): the final path of an item either does not exist or holds
\* a complete payload that nobody is still writing.
AtomicPublish ==
  \A p \in DOMAIN fs : IsFinal(p) => fs[p].data = "complete" /\ Writers(p) = {}

\* C2 (as claimed): two tasks in flight at the same time never have the same
\* temp-file path.
TempDistinct ==
  \A t, u \in Tasks :
    t # u /\ InFlight(t) /\ InFlight(u) => cur[t].filename # cur[u].filename

\* C3: no transfer sends more than max_retries requests, and a transfer
\* that is over and whose every request failed with a transient error has
\* sent exactly max_retries requests and ended as a failure, which is listed
\* in failed_list when the transfer ran under the scheduler.
RetryBound ==
  \A te \in Entries :
    /\ E(te).tries <= max_retries
    /\ E(te).res # "running" /\ E(te).tries >= 1 /\ E(te).transient = E(te).tries
         => /\ E(te).tries = max_retries
            /\ E(te).res = "exhausted"
            /\ Scheduled => Listed(te[1], E(te).trk, "exhausted")

RetryBoundWitness ==
  \E te \in Entries : E(te).res = "exhausted" /\ E(te).transient = max_retries

\* what skipping the track of log entry te means: no request is sent for
\* it, it ends as skipped, and its task holds no file open for it
Skipped(te) ==
  /\ E(te).tries = 0
  /\ E(te).res = "skipped"
  /\ te[2] = Len(log[te[1]]) => ~InFlight(te[1]) /\ fh[te[1]] = NoFile

\* C4 (as claimed): a track whose descriptor is flagged sample is skipped,
\* whichever entry point handles it.
SampleSkip ==
  \A te \in Entries : E(te).desc = "sample" => Skipped(te)

\* the same for the tracks handled under the scheduler only (track items
\* of a batch or a release, tracks of an expanded album)
SampleSkipScheduled ==
  Scheduled => \A te \in Entries : E(te).desc = "sample" => Skipped(te)

SampleSkipScheduledWitness ==
  /\ mode = "artist" /\ main = "joined"
  /\ \E te \in Entries : E(te).desc = "sample" /\ E(te).res = "skipped"

\* C5: a transfer that finds a file at its final path sends no request,
\* ends as satisfied and leaves the file in place; in the second run of the
\* same batch no request is sent for a track whose final path held a file
\* when that run started.
IdempotentRepublish ==
  \A te \in Entries :
    /\ E(te).existed =>
          E(te).tries = 0 /\ E(te).res = "present" /\ IsFile(fs, E(te).final)
    /\ run = "second" /\ E(te).final \in present0 =>
          E(te).tries = 0 /\ E(te).res = "present"

IdempotentRepublishWitness ==
  /\ run = "second" /\ main = "end"
  /\ \E te \in Entries : E(te).final \in present0 /\ E(te).res = "present"

\* C6: within one run the overall progress counter never decreases and
\* never exceeds the number of items.
ProgressMonotone ==
  [][run' = run => overall' >= overall /\ overall' <= Len(items)]_vars

ProgressMonotoneWitness ==
  main = "joined" /\ Len(items) = MaxWork /\ overall = Len(items)

\* C7: under the scheduler the counter equals the number of tasks that have
\* run their finally clause, whatever their outcome, and so equals the
\* number of items once all tasks have joined.
OneIncrementPerItem ==
  Scheduled =>
    /\ overall = Cardinality({t \in Tasks : pc[t] \in {"remove", "done"}})
    /\ main = "joined" => overall = Len(items)

OneIncrementPerItemWitness ==
  /\ main = "joined" /\ overall = Len(items) /\ Len(items) > 1
  /\ \E te \in Entries : E(te).res \in Errors
  /\ \E te \in Entries : E(te).res = "published"

\* what a task that has been processed to its own outcome looks like
Processed(t) ==
  /\ pc[t] = "done"
  /\ \A k \in DOMAIN log[t] : log[t][k].res # "running"
  /\ IF IsAlbumSummary(items[t])
       THEN Listed(t, 0, "album") \/ Len(log[t]) = Len(items[t].tracks)
       ELSE Len(log[t]) = 1

\* C8: every error of a track or an album under the scheduler is listed in
\* failed_list, and when the pool has joined every task has been processed
\* to its own outcome, whatever happened to the others.
FailureIsolation ==
  Scheduled =>
    /\ \A te \in Entries : E(te).res \in Errors => Listed(te[1], E(te).trk, E(te).res)
    /\ main = "joined" => \A t \in Tasks : Processed(t)

FailureIsolationWitness ==
  /\ main = "joined" /\ Len(items) > 1
  /\ \E t, u \in Tasks :
       /\ t # u
       /\ \E k \in DOMAIN log[t] : log[t][k].res \in Errors
       /\ \A k \in DOMAIN log[u] : log[u][k].res = "published"
       /\ log[u] # <<>>

\* C9: in the scenario, once the pool has joined, failed_list holds exactly
\* one entry, that of the unavailable track; the counter stands at three;
\* exactly two final files exist, both complete: the one that was there
\* before, which no task published to, and that of the flaky track, which
\* was published at its second attempt.
EndToEnd ==
  main = "joined" =>
    LET a == RoleOf("flaky")
        b == RoleOf("unavailable")
        c == RoleOf("steady")
    IN /\ Len(failed_list) = 1 /\ failed_list[1].task = b
       /\ overall = 3
       /\ {p \in DOMAIN fs : IsFinal(p)} = {ScenarioFinal(a), ScenarioFinal(c)}
       /\ \A p \in DOMAIN fs : IsFinal(p) => fs[p].data = "complete" /\ Writers(p) = {}
       /\ log[a][1].tries = 2 /\ log[a][1].res = "published"
       /\ log[c][1].tries = 0 /\ log[c][1].res = "present"
       /\ log[b][1].tries <= 1 /\ log[b][1].res \in Errors

EndToEndWitness ==
  /\ main = "joined" /\ Len(items) = 3
  /\ \E t \in Tasks : log[t][1].tries = 2 /\ log[t][1].res = "published"
  /\ \E t \in Tasks : log[t][1].res = "http_error"

\* the run has delivered everything it was asked for
Succeeded ==
  /\ failed_list = <<>>
  /\ \A t \in Tasks :
       /\ log[t] # <<>>
       /\ \A k \in DOMAIN log[t] : log[t][k].res \in {"published", "present"}

\* C10 (as claimed): an identifier enters the ledger only when the download
\* of the item has succeeded.
LedgerOnlySuccess == [][ledger' # ledger => Succeeded]_vars

\* download_from_id has dispatched the download
DispatchedFromId == DownloadTrack \/ DownloadRelease

\* C11: download_from_id dispatches the download whether or not the
\* identifier is in the ledger, and a transfer is skipped as satisfied only
\* when the final path held a file.
NoLedgerGating ==
  /\ mode \in {"track", "release"} /\ main = "start" => ENABLED DispatchedFromId
  /\ \A te \in Entries : E(te).res = "present" => E(te).existed

NoLedgerGatingWitness ==
  /\ ItemId \in ledger /\ run = "second"
  /\ \E te \in Entries : E(te).tries >= 1 /\ E(te).res = "published"

\* the listing holds album summaries only, each with the name of its artist
AllAlbums(track_list) ==
  \A k \in DOMAIN track_list :
     /\ {"tracks_count", "artist", "title"} \subseteq track_list[k].keys
     /\ "name" \in track_list[k].artist_keys

\* the names that occur most often, and whether x is related to name m
Modal(track_list) ==
  {track_list[k].name : k \in {j \in DOMAIN track_list :
      \A i \in DOMAIN track_list :
         CountOf(Artists(track_list), track_list[i].name)
           <= CountOf(Artists(track_list), track_list[j].name)}}
Related(m, x) ==
  \/ Contains(LowerStr(m), LowerStr(x))
  \/ Contains(LowerStr(x), LowerStr(m))
  \/ Contains(LowerStr(x), Various)

\* C12: on a listing of album summaries the filter returns, when the modal
\* artist's share is above 40%, the entries related to a modal artist, in
\* order, and otherwise the listing as it is.
FilterResult ==
  main # "start" /\ call.fn = "download_batch" /\ AllAlbums(call.track_list)
  /\ call.track_list # <<>> =>
    LET l == call.track_list
        share == CountOf(Artists(l), CHOOSE m \in Modal(l) : TRUE)
    IN /\ ~ret.raised
       /\ 5 * share > 2 * Len(l) =>
            \E m \in Modal(l) :
               ret.value = SelectSeq(l, LAMBDA e : Related(m, e.name))
       /\ 5 * share <= 2 * Len(l) => ret.value = l

FilterResultWitness ==
  /\ main = "returned" /\ call.fn = "download_batch" /\ AllAlbums(call.track_list)
  /\ Len(call.track_list) = 4 /\ Len(ret.value) = 3
  /\ \E k \in 1..3 : ret.value[k].name = <<"A", "b", "&", "C">>

FilterNoOpWitness ==
  /\ main = "returned" /\ call.fn = "download_batch"
  /\ call.track_list = Copies(3, Album(<<"A", "b">>)) \o Copies(3, Album(<<"C">>))
                          \o Copies(4, Album(<<"D">>))
  /\ ret.value = call.track_list

\* C13 (as claimed): the filtering step raises for no listing, and an empty
\* listing gives an empty list to dispatch.
FilterTotal ==
  main # "start" /\ call.fn = "download_batch" =>
    /\ ~ret.raised
    /\ call.track_list = <<>> => ret.value = <<>>

\* the descriptor _get_format works with, when there is one
Resolved(c) ==
  IF c.track_url_dict.some THEN c.track_url_dict ELSE c.answer
\* the resolution fails: no track to ask for, the catalog call fails, or
\* the descriptor lacks the bit depth or the sampling rate
ResolutionError(c) ==
  \/ ~c.is_track_id /\ c.n_tracks = 0
  \/ ~Resolved(c).some
  \/ ~({"bit_depth", "sampling_rate"} \subseteq Resolved(c).v.keys)

\* C14 (as claimed): above tier 5, on any resolution error _get_format
\* raises nothing and returns ("Unknown", True, None, None).
FormatDegradesSilently ==
  main # "start" /\ call.fn = "_get_format" /\ call.quality # 5
  /\ ResolutionError(call) =>
    /\ ~ret.raised
    /\ ret.value = FormatResult("Unknown", TRUE, Absent, Absent)

\* C15: tier 5 gives ("MP3", True, None, None) without asking the catalog;
\* a tier above 5 with a resolved descriptor gives "FLAC" with the
\* descriptor's bit depth and sampling rate, and quality-met is false
\* exactly when the tier is above 6 and the bit depth is 16.
FormatTiers ==
  main # "start" /\ call.fn = "_get_format" =>
    /\ call.quality = 5 =>
         /\ ~ret.raised /\ ret.lookups = 0
         /\ ret.value = FormatResult("MP3", TRUE, Absent, Absent)
    /\ call.quality > 5 /\ ~ResolutionError(call) =>
         /\ ~ret.raised
         /\ ret.value.format = "FLAC"
         /\ ret.value.bit_depth = Some(Resolved(call).v.bit_depth)
         /\ ret.value.sampling_rate = Some(Resolved(call).v.sampling_rate)
         /\ ~ret.value.quality_met <=>
              call.quality > 6 /\ Resolved(call).v.bit_depth = 16

FormatTiersWitness ==
  /\ main = "returned" /\ call.fn = "_get_format" /\ call.quality = 27
  /\ ret.value.format = "FLAC" /\ ~ret.value.quality_met /\ ret.lookups = 1

\* the k-th character of a string: the text it belongs to and its place
RECURSIVE CharAt(_, _)
CharAt(str, k) ==
  IF k <= Head(str).n THEN <<Head(str).c, Head(str).i, k>>
  ELSE CharAt(Tail(str), k - Head(str).n)

\* str is the first n characters of whole followed by ext
CutAt(str, whole, n, ext) ==
  /\ StrLen(str) = n + StrLen(ext)
  /\ \A k \in 1..n : CharAt(str, k) = CharAt(whole, k)
  /\ \A k \in 1..StrLen(ext) : CharAt(str, n + k) = CharAt(ext, k)

\* C16: a joined path of more than 240 characters gives its first 240
\* characters followed by the extension; a shorter one is kept whole with
\* the extension appended.
Truncation ==
  main = "returned" /\ call.fn = "final_file" =>
    LET joined == PathJoin(call.root_dir, call.formatted_name)
        ext == Extension(IsMp3)
    IN IF StrLen(joined) > 240
         THEN CutAt(ret.value, joined, 240, ext)
         ELSE CutAt(ret.value, joined, StrLen(joined), ext)

TruncationWitness ==
  /\ main = "returned" /\ call.fn = "final_file"
  /\ StrLen(PathJoin(call.root_dir, call.formatted_name)) = 241
  /\ StrLen(ret.value) = 245

\* C17 (as claimed): a malformed template is an error of the one item it
\* names: the run is not aborted, an album whose folder cannot be named is
\* listed as failed, a track whose name cannot be formed ends with a listed
\* error, and every task is still processed.
TemplateErrorsPerItem ==
  call.fn = "templates" =>
    /\ main \notin {"crashed", "aborted"}
    /\ ~call.folder_ok /\ mode = "artist" =>
         \A t \in Tasks : pc[t] = "done" => Listed(t, 0, "album")
    /\ ~call.track_ok =>
         \A te \in Entries :
            E(te).desc = "ok" =>
              E(te).res = "template" /\ Listed(te[1], E(te).trk, "template")
    /\ main = "joined" => \A t \in Tasks : Processed(t)

\* the part of it that holds: in a listing of albums a malformed folder
\* template is caught per album and the pool still joins
FolderErrorPerAlbum ==
  call.fn = "templates" /\ ~call.folder_ok /\ mode = "artist" =>
    /\ \A t \in Tasks : pc[t] = "done" => Listed(t, 0, "album")
    /\ Entries = {}
    /\ main \notin {"crashed", "aborted"}

FolderErrorPerAlbumWitness ==
  /\ call.fn = "templates" /\ ~call.folder_ok /\ mode = "artist"
  /\ main = "joined" /\ Len(failed_list) = 2

\* the album that log entry te belongs to, and the track it is about
AlbumOf(te) == IF mode = "artist" THEN items[te[1]].tracks ELSE items
Track(te) == TrackOf(te[1], E(te).trk)
\* the disc number of a track, 1 when it carries none
DiscOf(track) == IF track.media_number = 0 THEN 1 ELSE track.media_number
Spans(tracks) == \E j, k \in DOMAIN tracks : DiscOf(tracks[j]) # DiscOf(tracks[k])
\* the final path of the track in directory d
NamedIn(d, track) == FinalFile(d, FormattedName("fmt_album", track))

\* C18 (as claimed): a track of an album that spans several disc numbers has
\* its final path in the folder "Disc N" of its own disc number below the
\* album folder; a track of an album with one disc number has its final
\* path in the album folder itself.
DiscNesting ==
  mode \in {"artist", "release"} =>
    \A te \in Entries :
       E(te).final # NoFile =>
         E(te).final =
           IF Spans(AlbumOf(te))
             THEN NamedIn(PathJoin(DirOf(te[1]), DiscDir(DiscOf(Track(te)))), Track(te))
             ELSE NamedIn(DirOf(te[1]), Track(te))

\* the same for the albums all of whose tracks carry a disc number
DiscNestingNumbered ==
  mode \in {"artist", "release"} =>
    \A te \in Entries :
       E(te).final # NoFile /\ (\A k \in DOMAIN AlbumOf(te) : AlbumOf(te)[k].media_number # 0) =>
         E(te).final =
           IF Spans(AlbumOf(te))
             THEN NamedIn(PathJoin(DirOf(te[1]), DiscDir(DiscOf(Track(te)))), Track(te))
             ELSE NamedIn(DirOf(te[1]), Track(te))

DiscNestingNumberedWitness ==
  /\ mode = "artist" /\ main = "joined"
  /\ \E te \in Entries :
       /\ E(te).res = "published" /\ Track(te).media_number = 2
       /\ E(te).final \in DOMAIN fs
       /\ E(te).final = NamedIn(PathJoin(DirOf(te[1]), DiscDir(2)), Track(te))

\* C19 (as claimed): a task has advanced the overall counter only when its
\* own progress entry is gone, so that nothing of the task follows the
\* advance.
AdvanceIsLast ==
  Scheduled => \A t \in Tasks : pc[t] \in {"remove", "done"} => t \notin ptasks

\* the transfer of task t is reported as failed after max_retries
\* transient errors in this step
ReportsExhausted(t) ==
  /\ pc[t] = "exhausted"
  /\ log'[t] # log[t]
  /\ Last(log'[t]).res = "exhausted"

\* C20 (as claimed): when the failure of a transfer that used up its
\* attempts is reported, there is no file at its temp path and none at its
\* final path.
NoTempAfterExhaustion ==
  [][\A t \in Tasks :
       ReportsExhausted(t) =>
         /\ ~IsFile(fs', cur[t].filename)
         /\ ~IsFile(fs', cur[t].final_file)]_vars

\* no other task works in the directory of task t
OwnDirectory(t) == \A u \in Tasks : u # t => DirOf(u) # DirOf(t) \/ mode # "artist"

\* the same for the tasks that share their directory and ordinal with no
\* other task
NoTempAfterExhaustionAlone ==
  [][\A t \in Tasks :
       ReportsExhausted(t) /\ OwnDirectory(t) =>
         /\ ~IsFile(fs', cur[t].filename)
         /\ ~IsFile(fs', cur[t].final_file)]_vars

NoTempAfterExhaustionAloneWitness ==
  /\ \E t \in Tasks :
       /\ OwnDirectory(t) /\ pc[t] \in {"finally", "remove", "done"}
       /\ log[t] # <<>> /\ Last(log[t]).res = "exhausted"
       /\ ~IsFile(fs, cur[t].filename) /\ ~IsFile(fs, cur[t].final_file)

\* the errors of an attempt that are outside the transient class
HardErrors == {"http_error", "write_error"}

\* C21: a transfer that ended with an error outside the transient class
\* sent exactly one request beyond those that failed with a transient
\* error, its task is in no attempt, transfer or backoff for it any more,
\* and the error is the outcome of the item, listed in failed_list when the
\* transfer ran under the scheduler.
NoRetryOfHardErrors ==
  \A te \in Entries :
    E(te).res \in HardErrors =>
      /\ E(te).tries = E(te).transient + 1
      /\ te[2] = Len(log[te[1]]) => ~InFlight(te[1])
      /\ Scheduled => Listed(te[1], E(te).trk, E(te).res)

\* a write error at the first attempt, and an HTTP error status after a
\* transient failure
NoRetryOfHardErrorsWitness ==
  /\ \E te \in Entries : E(te).res = "write_error" /\ E(te).tries = 1
  /\ \E te \in Entries : E(te).res = "http_error" /\ E(te).transient = 1

\* the transfer of log entry te received its whole temp file
Received(te) == E(te).res \in {"published", "lost", "cover"}

\* C22 (as claimed): a transfer that received its whole temp file is no
\* failure, whatever the tagger and the cover step did: the file is at the
\* final path, the outcome is no error and failed_list has no entry for it.
BestEffort ==
  \A te \in Entries :
    Received(te) =>
      /\ E(te).res \notin Errors
      /\ ~\E i \in DOMAIN failed_list :
            failed_list[i].task = te[1] /\ failed_list[i].trk = E(te).trk
      /\ IsFile(fs, E(te).final)

\* the same for the runs in which the "image" value of the metadata is
\* absent or a record
BestEffortShaped ==
  call.image # "null" =>
    \A te \in Entries :
      Received(te) =>
        /\ E(te).res \notin Errors
        /\ ~\E i \in DOMAIN failed_list :
              failed_list[i].task = te[1] /\ failed_list[i].trk = E(te).trk
        /\ IsFile(fs, E(te).final)

\* the tagger failed, the cover was not written, the file is published
BestEffortShapedWitness ==
  /\ call.image = "url" /\ ~call.no_cover /\ mode = "playlist" /\ main = "joined"
  /\ \E te \in Entries :
       /\ E(te).res = "published" /\ ~E(te).tagged
       /\ IsFile(fs, E(te).final) /\ ~IsFile(fs, ImgPath(E(te).final))

\* C23: the tracks of an album summary are handled by the task of the
\* summary, in their order and one after another: a track is begun only
\* when the one before it is over, and the task ends when all of them have
\* been handled, unless the album itself failed.  The scheduler holds one
\* task per entry of the batch and no more, and every progress entry
\* belongs to one of them.
AlbumInOneSlot ==
  mode = "artist" =>
    /\ \A t \in Tasks :
         /\ Len(log[t]) <= Len(items[t].tracks)
         /\ \A k \in DOMAIN log[t] :
              /\ log[t][k].trk = k
              /\ k < Len(log[t]) => log[t][k].res # "running"
         /\ InFlight(t) => log[t] # <<>> /\ Last(log[t]).res = "running"
         /\ pc[t] = "done" /\ ~Listed(t, 0, "album") => Len(log[t]) = Len(items[t].tracks)
    /\ main # "start" => total = Len(items) /\ overall <= total
    /\ ptasks \subseteq Tasks
    /\ Cardinality({t \in Tasks : pc[t] \notin {"new", "queued", "done"}}) <= MAX_WORKERS

\* an album of two tracks whose task has transferred both, while the
\* scheduler counted one item
AlbumInOneSlotWitness ==
  /\ mode = "artist" /\ main = "joined" /\ total = 1 /\ overall = 1
  /\ \E t \in Tasks :
       /\ Len(items[t].tracks) = 2 /\ Len(log[t]) = 2
       /\ \A k \in 1..2 : log[t][k].res = "published" /\ log[t][k].tries >= 1

\* C24 (as claimed): a transfer that was interrupted has no file at its
\* final path, and once the sweep that follows an interrupt is over no temp
\* file is left under the destination.
CancellationSafety ==
  /\ \A te \in Entries : E(te).res = "interrupted" => ~IsFile(fs, E(te).final)
  /\ main = "swept" => \A p \in DOMAIN fs : ~IsTmp(p)

\* no thread of the pool is at work
PoolIdle == \A t \in Tasks : pc[t] \in {"new", "done"}

\* the same for the sweeps that run when no thread of the pool is at work:
\* such a sweep leaves no temp file, and no interrupted transfer has a
\* file at its final path
CancellationSafetyIdle ==
  [][/\ \A te \in Entries : E(te).res = "interrupted" => ~IsFile(fs, E(te).final)
     /\ main = "stopped" /\ main' = "swept" /\ PoolIdle
          => \A p \in DOMAIN fs' : ~IsTmp(p)]_vars

\* the sweep has removed the temp file of an interrupted transfer
CancellationSafetyIdleWitness ==
  /\ main = "swept" /\ PoolIdle
  /\ \E te \in Entries : E(te).res = "interrupted" /\ E(te).tries >= 1
  /\ \A p \in DOMAIN fs : ~IsTmp(p)

\* the track of log entry te has a complete file at its final path
Delivered(te) ==
  /\ E(te).final # NoFile
  /\ IsFile(fs, E(te).final)
  /\ fs[E(te).final].data = "complete"

\* C25 (as claimed): when the pool has joined and failed_list is empty,
\* every track that was handled and whose descriptor is not flagged sample
\* has a complete file at its final path.
EmptyListDelivered ==
  main = "joined" /\ failed_list = <<>> =>
    \A te \in Entries : E(te).desc # "sample" => Delivered(te)

\* the same for the descriptors that carry a URL, in the runs whose tasks
\* share no folder
EmptyListDeliveredUrl ==
  main = "joined" /\ failed_list = <<>> /\ mode # "artist" =>
    \A te \in Entries : E(te).desc = "ok" => Delivered(te)

EmptyListDeliveredUrlWitness ==
  /\ main = "joined" /\ failed_list = <<>> /\ mode = "playlist" /\ Len(items) = 2
  /\ \A t \in Tasks : log[t] # <<>> /\ log[t][1].desc = "ok" /\ log[t][1].res = "published"
  /\ \E t \in Tasks : log[t][1].tries = 2

\* the path f names a file of the directory d: it begins with d and a
\* separator and has no separator after that
InDirectory(f, d) ==
  /\ StrLen(f) > StrLen(d)
  /\ \A k \in 1..(StrLen(d) + 1) : CharAt(f, k) = CharAt(d \o <<Sep>>, k)
  /\ \A k \in (StrLen(d) + 2)..StrLen(f) : CharAt(f, k)[1] # Sep.c

\* C26 (as claimed): the final path is a file of the directory the temp
\* file is staged in, whatever the lengths of the directory and of the name.
StaysInDirectory ==
  main = "returned" /\ call.fn = "final_file" =>
    /\ InDirectory(TmpFile(call.root_dir, 1), call.root_dir)
    /\ InDirectory(ret.value, call.root_dir)

\* the same for the directories whose path and separator fit into the
\* first PATH_LIMIT characters
StaysInDirectoryShort ==
  main = "returned" /\ call.fn = "final_file" /\ StrLen(call.root_dir) < PATH_LIMIT =>
    /\ InDirectory(TmpFile(call.root_dir, 1), call.root_dir)
    /\ InDirectory(ret.value, call.root_dir)

\* a name that is cut inside a directory of two folders
StaysInDirectoryShortWitness ==
  /\ main = "returned" /\ call.fn = "final_file"
  /\ StrLen(call.root_dir) = 217
  /\ StrLen(PathJoin(call.root_dir, call.formatted_name)) > PATH_LIMIT
  /\ InDirectory(ret.value, call.root_dir)

====
